---- MODULE Spec2Model ----
(***************************************************************************)
(* A model of the csv struct-tag parser of go-csv (src/csvTag.go).         *)
(*                                                                         *)
(* Go strings that the code takes apart (tags, cells) are sequences of     *)
(* one-character strings; field names and type names, which the code only  *)
(* compares, are atomic strings.  Go indexes from 0, TLA+ sequences from   *)
(* 1: the cell at Go index idx of a row is row[idx + 1].                   *)
(***************************************************************************)
EXTENDS Integers, Sequences, FiniteSets, TLC

\* ------------------------------------------------------------------ bounds

\* Most cells a row of the source holds.
MaxCols == 3
\* Most ParseHeader/ReadRecord calls made on one Parser.
MaxCalls == 3
\* Most clauses of a tag handed to the tag parser on its own.
MaxClauses == 2
\* Most fields of a struct handed to metadata extraction on its own.
MaxFields == 2

\* --------------------------------------------------------------- constants

attrDelim == ";"
valueDelim == ":"
headerAttr == <<"h", "e", "a", "d", "e", "r">>
indexAttr == <<"i", "n", "d", "e", "x">>
useCustomSetterAttr ==
    <<"u", "s", "e", "C", "u", "s", "t", "o", "m", "S", "e", "t", "t", "e", "r">>

\* ------------------------------------------------------------------ errors

Nil == [kind |-> "nil"]
EOF == [kind |-> "EOF"]
\* encoding/csv's ErrFieldCount, returned by Read for a row whose field
\* count differs from the first row's (FieldsPerRecord is left at 0).
ErrFieldCount == [kind |-> "ErrFieldCount"]
\* strconv's *NumError (Atoi on a cell that is no integer).
NumError == [kind |-> "NumError"]
\* A run-time panic (index out of range): the call does not return.
Panic == [kind |-> "panic"]

ErrorMissingCustomSetter == [kind |-> "ErrorMissingCustomSetter"]
ErrorUnsupportedDataType == [kind |-> "ErrorUnsupportedDataType"]
ErrorInvalidIndex == [kind |-> "ErrorInvalidIndex"]
ErrorMalformedCsvTag == [kind |-> "ErrorMalformedCsvTag"]
ErrorUnexportedField == [kind |-> "ErrorUnexportedField"]
ErrorFieldNotFound == [kind |-> "ErrorFieldNotFound"]
\* The error of the test suite's CustomSetter for a field it does not know.
ErrorUnexpectedCall == [kind |-> "unexpected call to CustomSetter"]

CsvTagDefError(tag, fieldName, e) ==
    [kind |-> "CsvTagDefError", CsvTag |-> tag, FieldName |-> fieldName, Err |-> e]

FieldNotFoundError(fieldName, headerName) ==
    [kind |-> "FieldNotFoundError", FieldName |-> fieldName,
     HeaderName |-> headerName, Err |-> ErrorFieldNotFound]

SetValueError(value, fieldName, e) ==
    [kind |-> "SetValueError", Value |-> value, FieldName |-> fieldName, Err |-> e]

\* The Unwrap methods: the wrapped error of a wrapping error kind.
HasUnwrap(e) == e.kind \in {"CsvTagDefError", "FieldNotFoundError", "SetValueError"}

RECURSIVE ErrorsIs(_, _)
\* errors.Is: target is e or is reached from e by Unwrap.
ErrorsIs(e, target) ==
    IF e = target THEN TRUE
    ELSE IF HasUnwrap(e) THEN ErrorsIs(e.Err, target)
    ELSE FALSE

\* ------------------------------------------------------- strings, integers

Digits == {"0", "1", "2", "3", "4", "5", "6", "7", "8", "9"}

DigitVal(c) ==
    CASE c = "0" -> 0 [] c = "1" -> 1 [] c = "2" -> 2 [] c = "3" -> 3
      [] c = "4" -> 4 [] c = "5" -> 5 [] c = "6" -> 6 [] c = "7" -> 7
      [] c = "8" -> 8 [] c = "9" -> 9

RECURSIVE DigitsVal(_)
DigitsVal(s) ==
    IF s = <<>> THEN 0
    ELSE 10 * DigitsVal(SubSeq(s, 1, Len(s) - 1)) + DigitVal(s[Len(s)])

\* strconv.Atoi: an optional sign, then one or more decimal digits.  (The
\* 64-bit range error needs 19 digits; the cells and tags here have fewer.)
Atoi(s) ==
    LET signed == s # <<>> /\ s[1] \in {"+", "-"}
        body == IF signed THEN Tail(s) ELSE s
    IN  IF body = <<>> \/ \E i \in 1..Len(body) : body[i] \notin Digits
        THEN [val |-> 0, ok |-> FALSE]
        ELSE [val |-> IF signed /\ s[1] = "-" THEN 0 - DigitsVal(body)
                      ELSE DigitsVal(body),
              ok |-> TRUE]

RECURSIVE Split(_, _)
\* strings.Split(s, d) for a one-character d: the pieces of s between the
\* occurrences of d, in order; the empty string gives one empty piece.
Split(s, d) ==
    IF \A i \in 1..Len(s) : s[i] # d THEN <<s>>
    ELSE LET i == CHOOSE k \in 1..Len(s) :
                      s[k] = d /\ \A j \in 1..(k - 1) : s[j] # d
         IN  <<SubSeq(s, 1, i - 1)>> \o Split(SubSeq(s, i + 1, Len(s)), d)

\* --------------------------------------------------------- tag grammar

\* The zero value of csvAttributes.
ZeroAttrs == [headerName |-> <<>>, columnIndex |-> 0, useCustomSetter |-> FALSE]

\* A tag parser that compares keys without regard to case.
ClauseKeyFolded(attribute) ==
    LET key == Split(attribute, valueDelim)[1]
    IN  [i \in 1..Len(key) |-> IF key[i] = "H" THEN "h" ELSE key[i]]

\* key and value of one clause, as the loop body of getAttributesFromTag
\* takes them from strings.Split(attribute, valueDelim).
ClauseKey(attribute) == Split(attribute, valueDelim)[1]

ClauseValue(attribute) ==
    LET attributeArr == Split(attribute, valueDelim)
    IN  IF Len(attributeArr) > 1 THEN attributeArr[2] ELSE <<>>

RECURSIVE tagLoop(_, _, _, _)
\* The loop of getAttributesFromTag over the clauses still to visit, and the
\* check after it.
tagLoop(attributes, attrs, hasHeader, hasIndex) ==
    IF attributes = <<>>
    THEN IF ~hasHeader /\ ~hasIndex
         THEN [attrs |-> attrs, err |-> ErrorMalformedCsvTag]
         ELSE [attrs |-> attrs, err |-> Nil]
    ELSE LET key == ClauseKey(Head(attributes))
             value == ClauseValue(Head(attributes))
             rest == Tail(attributes)
         IN  IF key = headerAttr
             THEN tagLoop(rest, [attrs EXCEPT !.headerName = value], TRUE, hasIndex)
             ELSE IF key = indexAttr
             THEN LET n == Atoi(value)
                      set == [attrs EXCEPT !.columnIndex = n.val]
                  IN  IF ~n.ok THEN [attrs |-> set, err |-> ErrorInvalidIndex]
                      ELSE IF n.val < 0 THEN [attrs |-> set, err |-> ErrorInvalidIndex]
                      ELSE tagLoop(rest, set, hasHeader, TRUE)
             ELSE IF key = useCustomSetterAttr
             THEN tagLoop(rest, [attrs EXCEPT !.useCustomSetter = TRUE],
                          hasHeader, hasIndex)
             ELSE tagLoop(rest, attrs, hasHeader, hasIndex)

getAttributesFromTag(tag) ==
    tagLoop(Split(tag, attrDelim), ZeroAttrs, FALSE, FALSE)

\* -------------------------------------------------------- record types

\* A struct field: its name, its csv tag (<<>> when it has none), the name of
\* its Go type, and whether it is exported.
Fld(name, tag, type, exported) ==
    [Name |-> name, Tag |-> tag, Type |-> type, Exported |-> exported]

\* A record type: its fields in declaration order, and the CustomSetter
\* method of its pointer type: "none" (not implemented), "upper" (the test
\* suite's dataTypesTest.CustomSetter) or "noop" (unsupportedDataType2's).
Rec(fields, setter) == [fields |-> fields, setter |-> setter]

TagOf(key, value) == key \o <<valueDelim>> \o value

HeaderA == TagOf(headerAttr, <<"a">>)
Header5 == TagOf(headerAttr, <<"5">>)

headerTest ==
    Rec(<<Fld("IgnoredField", <<>>, "int", TRUE),
          Fld("Field1", HeaderA, "string", TRUE),
          Fld("Field2", Header5, "int", TRUE)>>, "none")
headerSingle == Rec(<<Fld("Field1", HeaderA, "int", TRUE)>>, "none")
indexTest ==
    Rec(<<Fld("Field1", TagOf(indexAttr, <<"1">>), "string", TRUE),
          Fld("Field2", TagOf(indexAttr, <<"2">>), "int", TRUE)>>, "none")
indexSingle == Rec(<<Fld("Field1", TagOf(indexAttr, <<"0">>), "int", TRUE)>>, "none")
mixedTest ==
    Rec(<<Fld("Field1", HeaderA, "string", TRUE),
          Fld("Field2", TagOf(indexAttr, <<"1">>), "int", TRUE)>>, "none")
malformedTag ==
    Rec(<<Fld("BadDef", TagOf(<<"H", "e", "a", "d", "e", "r">>, <<"a">>),
              "string", TRUE)>>, "none")
validThenMalformed ==
    Rec(<<Fld("Field1", TagOf(indexAttr, <<"0">>), "string", TRUE),
          Fld("BadDef", TagOf(<<"H", "e", "a", "d", "e", "r">>, <<"a">>),
              "string", TRUE)>>, "none")
noTags == Rec(<<Fld("IgnoredField", <<>>, "int", TRUE)>>, "none")
invalidIndex1 ==
    Rec(<<Fld("AlphaIndex", TagOf(indexAttr, <<"a">>), "string", TRUE)>>, "none")
invalidIndex2 ==
    Rec(<<Fld("AlphaIndex", TagOf(indexAttr, <<"-", "1">>), "string", TRUE)>>, "none")
unexportedField ==
    Rec(<<Fld("unexportedField", HeaderA, "string", FALSE)>>, "none")
missingCustomSetter ==
    Rec(<<Fld("CustomField", HeaderA \o <<attrDelim>> \o useCustomSetterAttr,
              "string", TRUE)>>, "none")
unsupportedDataType1 ==
    Rec(<<Fld("UnsupportedField", HeaderA, "interface", TRUE)>>, "none")
unsupportedDataType2 ==
    Rec(<<Fld("UnsupportedField", HeaderA, "interface", TRUE)>>, "noop")
customTest ==
    Rec(<<Fld("CustomField",
              TagOf(indexAttr, <<"0">>) \o <<attrDelim>> \o useCustomSetterAttr,
              "string", TRUE)>>, "upper")
customUnknownField ==
    Rec(<<Fld("Field1", TagOf(indexAttr, <<"0">>), "string", TRUE),
          Fld("OtherField",
              TagOf(indexAttr, <<"1">>) \o <<attrDelim>> \o useCustomSetterAttr,
              "string", TRUE)>>, "upper")

RecordTypes ==
    {headerTest, headerSingle, indexTest, indexSingle, mixedTest, malformedTag,
     validThenMalformed, noTags, invalidIndex1, invalidIndex2, unexportedField,
     missingCustomSetter, unsupportedDataType1, unsupportedDataType2,
     customTest, customUnknownField}

FieldNames(rt) == {rt.fields[i].Name : i \in 1..Len(rt.fields)}

FieldOf(rt, fieldName) ==
    rt.fields[CHOOSE i \in 1..Len(rt.fields) : rt.fields[i].Name = fieldName]

\* The zero value of a Go type.
ZeroValue(type) ==
    IF type \in {"string", "interface"} THEN <<>>
    ELSE IF type = "bool" THEN FALSE
    ELSE 0

ZeroRecord(rt) == [f \in FieldNames(rt) |-> ZeroValue(FieldOf(rt, f).Type)]

\* -------------------------------------------------- metadata extraction

\* A type check that takes every kind for a supported one.
isValidDataTypeAny(type) == TRUE

isValidDataType(type) ==
    type \in {"string", "int", "int8", "int16", "int32", "int64",
              "float32", "float64"}

\* An extraction that takes every type to implement CustomSetter.
supportsCustomDataAlways(rt) == TRUE

\* reflect's Implements(CustomSetter) on the pointer type.
supportsCustomData(rt) == rt.setter # "none"

\* The empty map of make(map[string]csvAttributes).
EmptyAttrs == [f \in {} |-> ZeroAttrs]

\* m[k] = v on a Go map.
MapPut(m, k, v) == [f \in DOMAIN m \cup {k} |-> IF f = k THEN v ELSE m[f]]

RECURSIVE fieldLoop(_, _, _)
\* The loop of getCsvAttributes from field i on: the map built so far is
\* returned with the error of the first invalid field.
fieldLoop(rt, i, csvAttrs) ==
    IF i > Len(rt.fields) THEN [csvAttrs |-> csvAttrs, err |-> Nil]
    ELSE LET field == rt.fields[i]
             tag == field.Tag
             parsed == getAttributesFromTag(tag)
             fieldAttrs == parsed.attrs
         IN  IF tag = <<>> THEN fieldLoop(rt, i + 1, csvAttrs)
             ELSE IF ~field.Exported
             THEN [csvAttrs |-> csvAttrs,
                   err |-> CsvTagDefError(tag, field.Name, ErrorUnexportedField)]
             ELSE IF parsed.err # Nil
             THEN [csvAttrs |-> csvAttrs,
                   err |-> CsvTagDefError(tag, field.Name, parsed.err)]
             ELSE IF fieldAttrs.useCustomSetter /\ ~supportsCustomData(rt)
             THEN [csvAttrs |-> csvAttrs,
                   err |-> CsvTagDefError(tag, field.Name, ErrorMissingCustomSetter)]
             ELSE IF ~isValidDataType(field.Type) /\ ~supportsCustomData(rt)
             THEN [csvAttrs |-> csvAttrs,
                   err |-> CsvTagDefError(tag, field.Name, ErrorUnsupportedDataType)]
             ELSE fieldLoop(rt, i + 1, MapPut(csvAttrs, field.Name, fieldAttrs))

getCsvAttributes(rt) == fieldLoop(rt, 1, EmptyAttrs)

\* ------------------------------------------------------------- the source

\* The cells a row may hold: a text that is no integer, and an integer.
Cells == {<<"a">>, <<"5">>}

\* The rows encoding/csv can return: it skips empty lines, so a row has at
\* least one cell.
Rows == UNION {[1..n -> Cells] : n \in 1..MaxCols}

\* What the underlying io.Reader holds next: a row, or nothing more.
Inputs == [eof : {FALSE}, record : Rows] \cup {[eof |-> TRUE, record |-> <<>>]}

VARIABLES
    rtype,            \* the record type of the struct pointers passed in
    data,             \* the struct passed to the last call, after the call
    csvAttrs,         \* Parser.csvAttrs
    pos,              \* rows the csv.Reader has consumed
    fieldsPerRecord,  \* csv.Reader.FieldsPerRecord
    exhausted,        \* the csv.Reader has reported io.EOF
    header,           \* the row the last call read as the header; kept over
                      \* the ReadRecord calls that follow a first, successful
                      \* and only ParseHeader (the header row of the file)
    row,              \* the row the last call read as data
    op,               \* the last call: "ParseHeader", "ReadRecord" or "none"
    err,              \* what the last call returned
    readErr,          \* what p.reader.Read() returned in the last call
    afterRowError,    \* the call before the last was a ReadRecord that
                      \* returned a SetValueError
    calls,            \* calls made
    nRead,            \* ReadRecord calls made
    nHdr,             \* ParseHeader calls made
    hdrFirst,         \* the first call was a ParseHeader that returned nil
    extractCount,     \* getCsvAttributes calls made
    eofSeen,          \* a ReadRecord call has returned io.EOF
    tagIn,            \* the tag handed to the tag parser on its own
    tagOut            \* its result

readerVars ==
    <<rtype, data, csvAttrs, pos, fieldsPerRecord, exhausted, header, row, op,
      err, readErr, afterRowError, calls, nRead, nHdr, hdrFirst, extractCount, eofSeen>>
tagVars == <<tagIn, tagOut>>
vars == <<readerVars, tagVars>>

\* p.reader.Read() of encoding/csv on the input in: the record and error it
\* returns and the reader's state after it.  With FieldsPerRecord 0 the first
\* row read fixes the field count, and a later row of another count is
\* returned together with ErrFieldCount.
csvRead(in) ==
    IF exhausted \/ in.eof
    THEN [record |-> <<>>, err |-> EOF, pos |-> pos,
          fieldsPerRecord |-> fieldsPerRecord, exhausted |-> TRUE]
    ELSE [record |-> in.record,
          err |-> IF fieldsPerRecord > 0 /\ Len(in.record) # fieldsPerRecord
                  THEN ErrFieldCount ELSE Nil,
          pos |-> pos + 1,
          fieldsPerRecord |-> IF fieldsPerRecord = 0 THEN Len(in.record)
                              ELSE fieldsPerRecord,
          exhausted |-> FALSE]

\* ---------------------------------------------------------------- coercion

ToUpper(value) ==
    [i \in 1..Len(value) |->
        IF value[i] = "a" THEN "A" ELSE value[i]]

\* The CustomSetter method of the record type, called through reflection.
CustomSetter(rt, d, fieldName, value) ==
    IF rt.setter = "upper"
    THEN IF fieldName = "CustomField"
         THEN [data |-> [d EXCEPT ![fieldName] = ToUpper(value) \o <<"!", "!">>],
               err |-> Nil]
         ELSE [data |-> d, err |-> ErrorUnexpectedCall]
    ELSE IF rt.setter = "noop" THEN [data |-> d, err |-> Nil]
    ELSE [data |-> d, err |-> Panic]

\* strconv.ParseUint(value, 10, 64): decimal digits only, no sign.
ParseUint(value) ==
    IF value = <<>> \/ \E i \in 1..Len(value) : value[i] \notin Digits
    THEN [val |-> 0, ok |-> FALSE]
    ELSE [val |-> DigitsVal(value), ok |-> TRUE]

\* int8(x): the low 8 bits of x as a signed value (reflect's SetInt).
ToInt8(x) == ((x + 128) % 256) - 128

\* uint8(x): the low 8 bits of x (reflect's SetUint).
ToUint8(x) == x % 256

\* int16(x) and uint16(x), likewise.
ToInt16(x) == ((x + 32768) % 65536) - 32768

ToUint16(x) == x % 65536

\* reflect's Value.SetInt(x) and Value.SetUint(x) on a field of this kind:
\* the value is converted to the kind and stored, without a range check.
\* (The cells here have at most five digits, so a value always fits the
\* kinds of 32 and 64 bits.)
SetInt(type, x) ==
    IF type = "int8" THEN ToInt8(x)
    ELSE IF type = "int16" THEN ToInt16(x)
    ELSE x

SetUint(type, x) ==
    IF type = "uint8" THEN ToUint8(x)
    ELSE IF type = "uint16" THEN ToUint16(x)
    ELSE x

\* strconv.ParseFloat on the cells here: a decimal integer with an optional
\* sign is read as that number; a text without digits is an error.
ParseFloat(value) == Atoi(value)

\* Parser.setFieldValue: the struct after it and the error it returns.
setFieldValue(rt, attrs, d, fieldName, value) ==
    LET type == FieldOf(rt, fieldName).Type
    IN  IF attrs[fieldName].useCustomSetter
        THEN LET out == CustomSetter(rt, d, fieldName, value)
             IN  IF out.err = Panic THEN out
                 ELSE IF out.err # Nil
                 THEN [data |-> out.data,
                       err |-> SetValueError(value, fieldName, out.err)]
                 ELSE out
        ELSE IF type = "string"
        THEN [data |-> [d EXCEPT ![fieldName] = value], err |-> Nil]
        ELSE IF type \in {"int", "int8", "int16", "int32", "int64"}
        THEN LET n == Atoi(value)
             IN  IF ~n.ok
                 THEN [data |-> d, err |-> SetValueError(value, fieldName, NumError)]
                 ELSE [data |-> [d EXCEPT ![fieldName] = SetInt(type, n.val)],
                       err |-> Nil]
        ELSE IF type \in {"uint", "uint8", "uint16", "uint32", "uint64"}
        THEN LET n == ParseUint(value)
             IN  IF ~n.ok
                 THEN [data |-> d, err |-> SetValueError(value, fieldName, NumError)]
                 ELSE [data |-> [d EXCEPT ![fieldName] = SetUint(type, n.val)],
                       err |-> Nil]
        ELSE IF type \in {"float32", "float64"}
        THEN LET n == ParseFloat(value)
             IN  IF ~n.ok
                 THEN [data |-> d, err |-> SetValueError(value, fieldName, NumError)]
                 ELSE [data |-> [d EXCEPT ![fieldName] = n.val], err |-> Nil]
        ELSE [data |-> d,
              err |-> SetValueError(value, fieldName, ErrorUnsupportedDataType)]

\* ------------------------------------------------------------ the Parser

\* The orders in which a range over a map with these keys may visit them.
Orders(keys) ==
    {o \in [1..Cardinality(keys) -> keys] :
        \A i, j \in 1..Cardinality(keys) : o[i] = o[j] => i = j}

\* A scan that takes the first column whatever its label.
LabelMatchesAny(headerLabel, headerName) == TRUE

\* headerLabel == csvAttrs.headerName in the scan of ParseHeader.
LabelMatches(headerLabel, headerName) == headerLabel = headerName

RECURSIVE scanHeader(_, _, _)
\* The inner loop of ParseHeader from Go index idx on: the index of the first
\* matching label, or -1 when the loop ends with foundIdx false.
scanHeader(hdr, headerName, idx) ==
    IF idx >= Len(hdr) THEN 0 - 1
    ELSE IF LabelMatches(hdr[idx + 1], headerName) THEN idx
    ELSE scanHeader(hdr, headerName, idx + 1)

RECURSIVE headerLoop(_, _, _)
\* The outer loop of ParseHeader over the bindings in the order the map
\* yields them.
headerLoop(attrs, hdr, order) ==
    IF order = <<>> THEN [csvAttrs |-> attrs, err |-> Nil]
    ELSE LET fieldName == Head(order)
             idx == scanHeader(hdr, attrs[fieldName].headerName, 0)
         IN  IF idx < 0
             THEN [csvAttrs |-> attrs,
                   err |-> FieldNotFoundError(fieldName, attrs[fieldName].headerName)]
             ELSE headerLoop([attrs EXCEPT ![fieldName].columnIndex = idx],
                             hdr, Tail(order))

\* The table a call works with and whether it ran getCsvAttributes for it:
\* `if len(p.csvAttrs) == 0 { p.csvAttrs, err = getCsvAttributes(...) }`.
\* The assignment stores the map that comes with an error too.
ensureAttrs(rt, attrs) ==
    IF Cardinality(DOMAIN attrs) = 0
    THEN [csvAttrs |-> getCsvAttributes(rt).csvAttrs,
          err |-> getCsvAttributes(rt).err, ran |-> TRUE]
    ELSE [csvAttrs |-> attrs, err |-> Nil, ran |-> FALSE]

\* Parser.ParseHeader on the input in, the map yielding its keys in order.
ParseHeader(in, order) ==
    LET rd == csvRead(in)
        ex == ensureAttrs(rtype, csvAttrs)
        hl == headerLoop(ex.csvAttrs, rd.record, order)
    IN  IF rd.err # Nil
        THEN [rd |-> rd, err |-> rd.err, csvAttrs |-> csvAttrs, ran |-> FALSE]
        ELSE IF ex.err # Nil
        THEN [rd |-> rd, err |-> ex.err, csvAttrs |-> ex.csvAttrs, ran |-> ex.ran]
        ELSE [rd |-> rd, err |-> hl.err, csvAttrs |-> hl.csvAttrs, ran |-> ex.ran]

\* A read that takes the first cell of the row whatever the index.
CellAtFirst(readRecord, idx) == readRecord[1]

\* readRecord[idx]
CellAt(readRecord, idx) == readRecord[idx + 1]

\* A row error that reports the field name and the cause, not the cell.
RowErrorNoValue(value, fieldName, e) == SetValueError(<<>>, fieldName, e)

\* The SetValueError ReadRecord returns for a field that could not be set.
RowError(value, fieldName, e) == SetValueError(value, fieldName, e)

RECURSIVE recordLoop(_, _, _, _, _)
\* The loop of ReadRecord over the bindings in the order the map yields
\* them.  An index past the end of the row panics.
recordLoop(rt, attrs, readRecord, order, d) ==
    IF order = <<>> THEN [data |-> d, err |-> Nil]
    ELSE LET fieldName == Head(order)
             idx == attrs[fieldName].columnIndex
             value == CellAt(readRecord, idx)
             set == setFieldValue(rt, attrs, d, fieldName, value)
         IN  IF idx >= Len(readRecord) THEN [data |-> d, err |-> Panic]
             ELSE IF set.err = Panic THEN set
             ELSE IF set.err # Nil
             THEN [data |-> set.data, err |-> RowError(value, fieldName, set.err)]
             ELSE recordLoop(rt, attrs, readRecord, Tail(order), set.data)

\* A read failure handed to the caller inside a SetValueError.
ReadFailureWrapped(e) == SetValueError(<<>>, "", e)

\* What ReadRecord returns when p.reader.Read() failed: `return err`.
ReadFailure(e) == e

\* Parser.ReadRecord on the input in, the map yielding its keys in order.
ReadRecord(in, order) ==
    LET ex == ensureAttrs(rtype, csvAttrs)
        rd == csvRead(in)
        rl == recordLoop(rtype, ex.csvAttrs, rd.record, order, ZeroRecord(rtype))
        noRead == [record |-> <<>>, err |-> Nil, pos |-> pos,
                   fieldsPerRecord |-> fieldsPerRecord, exhausted |-> exhausted]
    IN  IF ex.err # Nil
        THEN [rd |-> noRead, read |-> FALSE, err |-> ex.err,
              csvAttrs |-> ex.csvAttrs, ran |-> ex.ran, data |-> ZeroRecord(rtype)]
        ELSE IF rd.err # Nil
        THEN [rd |-> rd, read |-> TRUE, err |-> ReadFailure(rd.err),
              csvAttrs |-> ex.csvAttrs, ran |-> ex.ran, data |-> ZeroRecord(rtype)]
        ELSE [rd |-> rd, read |-> TRUE, err |-> rl.err,
              csvAttrs |-> ex.csvAttrs, ran |-> ex.ran, data |-> rl.data]

\* ------------------------------------------------------------ the machine

\* No tag is being parsed on its own while a Parser runs.
NoTag == [done |-> FALSE, attrs |-> ZeroAttrs, err |-> Nil]

\* NewParser: an empty map, a fresh csv.Reader.  Every call is passed a
\* pointer to a fresh struct, as in the README's read loop.
Init ==
    /\ rtype \in RecordTypes
    /\ data = ZeroRecord(rtype)
    /\ csvAttrs = EmptyAttrs
    /\ pos = 0
    /\ fieldsPerRecord = 0
    /\ exhausted = FALSE
    /\ header = <<>>
    /\ row = <<>>
    /\ op = "none"
    /\ err = Nil
    /\ readErr = Nil
    /\ afterRowError = FALSE
    /\ calls = 0
    /\ nRead = 0
    /\ nHdr = 0
    /\ hdrFirst = FALSE
    /\ extractCount = 0
    /\ eofSeen = FALSE
    /\ tagIn = <<>>
    /\ tagOut = NoTag

\* The process is gone after a panic.
Running == err # Panic /\ calls < MaxCalls

DoParseHeader ==
    /\ Running
    /\ \E in \in Inputs, order \in Orders(DOMAIN ensureAttrs(rtype, csvAttrs).csvAttrs) :
        \E r \in {ParseHeader(in, order)} :
            /\ csvAttrs' = r.csvAttrs
            /\ data' = ZeroRecord(rtype)
            /\ pos' = r.rd.pos
            /\ fieldsPerRecord' = r.rd.fieldsPerRecord
            /\ exhausted' = r.rd.exhausted
            /\ header' = r.rd.record
            /\ err' = r.err
            /\ readErr' = r.rd.err
            /\ extractCount' = extractCount + (IF r.ran THEN 1 ELSE 0)
            /\ hdrFirst' = IF calls = 0 THEN r.err = Nil ELSE hdrFirst
    /\ op' = "ParseHeader"
    /\ afterRowError' = (op = "ReadRecord" /\ err.kind = "SetValueError")
    /\ calls' = calls + 1
    /\ nHdr' = nHdr + 1
    /\ row' = <<>>
    /\ UNCHANGED <<rtype, nRead, eofSeen, tagVars>>

DoReadRecord ==
    /\ Running
    /\ \E in \in Inputs, order \in Orders(DOMAIN ensureAttrs(rtype, csvAttrs).csvAttrs) :
        \E r \in {ReadRecord(in, order)} :
            /\ csvAttrs' = r.csvAttrs
            /\ data' = r.data
            /\ pos' = r.rd.pos
            /\ fieldsPerRecord' = r.rd.fieldsPerRecord
            /\ exhausted' = r.rd.exhausted
            /\ row' = r.rd.record
            /\ err' = r.err
            /\ readErr' = IF r.read THEN r.rd.err ELSE Nil
            /\ extractCount' = extractCount + (IF r.ran THEN 1 ELSE 0)
            /\ eofSeen' = (eofSeen \/ r.err = EOF)
    /\ op' = "ReadRecord"
    /\ afterRowError' = (op = "ReadRecord" /\ err.kind = "SetValueError")
    /\ calls' = calls + 1
    /\ nRead' = nRead + 1
    /\ header' = IF hdrFirst /\ nHdr = 1 THEN header ELSE <<>>
    /\ UNCHANGED <<rtype, nHdr, hdrFirst, tagVars>>

Next == DoParseHeader \/ DoReadRecord

Spec == Init /\ [][Next]_vars

\* ------------------------------------------------ the tag parser alone

\* Keys and values of the clauses handed to the tag parser: the three keys
\* the code knows, a key that differs from one in case only, an unknown
\* key; values that are and are not integers, with and without a sign.
TagKeys ==
    {headerAttr, indexAttr, useCustomSetterAttr,
     <<"H", "e", "a", "d", "e", "r">>, <<"x">>}
TagValues ==
    {<<>>, <<"1">>, <<"1", "0">>, <<"a">>, <<"-", "1">>, <<"-", "0">>, <<"+", "2">>}
TagClauses ==
    TagKeys \cup {TagOf(k, v) : k \in TagKeys, v \in TagValues}
        \cup {TagOf(indexAttr, <<"1">>) \o <<valueDelim, "a">>,
              TagOf(headerAttr, <<"a">>) \o <<valueDelim, "1">>}

RECURSIVE JoinClauses(_)
JoinClauses(cs) ==
    IF Len(cs) = 1 THEN cs[1]
    ELSE cs[1] \o <<attrDelim>> \o JoinClauses(Tail(cs))

TagInputs ==
    {<<>>} \cup
    {JoinClauses(cs) : cs \in UNION {[1..n -> TagClauses] : n \in 1..MaxClauses}}

InitTag ==
    /\ tagIn \in TagInputs
    /\ tagOut = NoTag
    /\ rtype = noTags
    /\ data = ZeroRecord(noTags)
    /\ csvAttrs = EmptyAttrs
    /\ pos = 0
    /\ fieldsPerRecord = 0
    /\ exhausted = FALSE
    /\ header = <<>>
    /\ row = <<>>
    /\ op = "none"
    /\ err = Nil
    /\ readErr = Nil
    /\ afterRowError = FALSE
    /\ calls = 0
    /\ nRead = 0
    /\ nHdr = 0
    /\ hdrFirst = FALSE
    /\ extractCount = 0
    /\ eofSeen = FALSE

ParseTag ==
    /\ ~tagOut.done
    /\ \E r \in {getAttributesFromTag(tagIn)} :
        tagOut' = [done |-> TRUE, attrs |-> r.attrs, err |-> r.err]
    /\ UNCHANGED <<tagIn, readerVars>>

NextTag == ParseTag

SpecTag == InitTag /\ [][NextTag]_vars

\* ------------------------------------------- metadata extraction alone

\* The structs handed to getCsvAttributes on its own: up to MaxFields fields
\* F1, F2, ..., each with one of the tags, kinds and export states below, on
\* a type with or without the CustomSetter method.  The tags: none, a header
\* and an index clause, a tag the grammar rejects as malformed (with and
\* without the useCustomSetter flag), one it rejects for its index, and a
\* valid tag that asks for the custom setter.
ExtractTags ==
    {<<>>, HeaderA, TagOf(indexAttr, <<"0">>),
     TagOf(<<"H", "e", "a", "d", "e", "r">>, <<"a">>),
     useCustomSetterAttr,
     TagOf(indexAttr, <<"a">>),
     HeaderA \o <<attrDelim>> \o useCustomSetterAttr}
ExtractKinds == {"string", "interface"}
ExtractNames == <<"F1", "F2", "F3", "F4">>

ExtractFields(n) ==
    {fs \in [1..n -> [Name : {ExtractNames[i] : i \in 1..n}, Tag : ExtractTags,
                      Type : ExtractKinds, Exported : BOOLEAN]] :
        \A i \in 1..n : fs[i].Name = ExtractNames[i]}

ExtractTypes ==
    {Rec(fs, s) : fs \in UNION {ExtractFields(n) : n \in 0..MaxFields},
                  s \in {"none", "noop"}}

InitExtract ==
    /\ rtype \in ExtractTypes
    /\ data = ZeroRecord(rtype)
    /\ csvAttrs = EmptyAttrs
    /\ pos = 0
    /\ fieldsPerRecord = 0
    /\ exhausted = FALSE
    /\ header = <<>>
    /\ row = <<>>
    /\ op = "none"
    /\ err = Nil
    /\ readErr = Nil
    /\ afterRowError = FALSE
    /\ calls = 0
    /\ nRead = 0
    /\ nHdr = 0
    /\ hdrFirst = FALSE
    /\ extractCount = 0
    /\ eofSeen = FALSE
    /\ tagIn = <<>>
    /\ tagOut = NoTag

\* csvAttrs, err = getCsvAttributes(structPointer)
Extract ==
    /\ extractCount = 0
    /\ \E r \in {getCsvAttributes(rtype)} :
        /\ csvAttrs' = r.csvAttrs
        /\ err' = r.err
    /\ extractCount' = 1
    /\ op' = "getCsvAttributes"
    /\ UNCHANGED <<rtype, data, pos, fieldsPerRecord, exhausted, header, row,
                   readErr, afterRowError, calls, nRead, nHdr, hdrFirst,
                   eofSeen, tagVars>>

NextExtract == Extract

SpecExtract == InitExtract /\ [][NextExtract]_vars

\* --------------------------------------------------- one typed cell a row

\* The kinds of the fields of the test suite's dataTypesTest (one kind of
\* each family and width class), and interface{}.
CellKinds ==
    {"string", "bool", "int", "int8", "int16", "uint", "uint8", "uint16",
     "float64", "complex128", "interface"}

\* A struct with one field of the kind, bound to column 0, on a type with
\* or without a CustomSetter method that its tags do not ask for.
cellTest(kind, setter) ==
    Rec(<<Fld("Field1", TagOf(indexAttr, <<"0">>), kind, TRUE)>>, setter)

CellTypes == {cellTest(k, s) : k \in CellKinds, s \in {"none", "noop"}}

\* The cells of the rows: texts that are no numbers, and integers inside and
\* outside the ranges of 8 and 16 bits.
CellTexts ==
    {<<"a">>, <<"t", "r", "u", "e">>, <<"8">>, <<"-", "1">>,
     <<"1", "2", "7">>, <<"1", "2", "8">>, <<"-", "1", "2", "9">>,
     <<"2", "5", "5">>, <<"2", "5", "6">>, <<"3", "0", "0">>,
     <<"4", "0", "0", "0", "0">>}

CellInputs ==
    [eof : {FALSE}, record : {<<c>> : c \in CellTexts}]
        \cup {[eof |-> TRUE, record |-> <<>>]}

InitCell ==
    /\ rtype \in CellTypes
    /\ data = ZeroRecord(rtype)
    /\ csvAttrs = EmptyAttrs
    /\ pos = 0
    /\ fieldsPerRecord = 0
    /\ exhausted = FALSE
    /\ header = <<>>
    /\ row = <<>>
    /\ op = "none"
    /\ err = Nil
    /\ readErr = Nil
    /\ afterRowError = FALSE
    /\ calls = 0
    /\ nRead = 0
    /\ nHdr = 0
    /\ hdrFirst = FALSE
    /\ extractCount = 0
    /\ eofSeen = FALSE
    /\ tagIn = <<>>
    /\ tagOut = NoTag

\* p.ReadRecord(&data) on a source of one-cell rows.
DoReadCell ==
    /\ Running
    /\ \E in \in CellInputs, order \in Orders(DOMAIN ensureAttrs(rtype, csvAttrs).csvAttrs) :
        \E r \in {ReadRecord(in, order)} :
            /\ csvAttrs' = r.csvAttrs
            /\ data' = r.data
            /\ pos' = r.rd.pos
            /\ fieldsPerRecord' = r.rd.fieldsPerRecord
            /\ exhausted' = r.rd.exhausted
            /\ row' = r.rd.record
            /\ err' = r.err
            /\ readErr' = IF r.read THEN r.rd.err ELSE Nil
            /\ extractCount' = extractCount + (IF r.ran THEN 1 ELSE 0)
            /\ eofSeen' = (eofSeen \/ r.err = EOF)
    /\ op' = "ReadRecord"
    /\ afterRowError' = (op = "ReadRecord" /\ err.kind = "SetValueError")
    /\ calls' = calls + 1
    /\ nRead' = nRead + 1
    /\ UNCHANGED <<rtype, header, nHdr, hdrFirst, tagVars>>

NextCell == DoReadCell

SpecCell == InitCell /\ [][NextCell]_vars

\* ------------------------------------------------------------------ C10

\* The text of a clause before its first valueDelim, and the text between
\* its first and its second valueDelim (or its end).
ColonsOf(clause) == {i \in 1..Len(clause) : clause[i] = valueDelim}
MinOf(S) == CHOOSE x \in S : \A y \in S : x <= y
KeyText(clause) ==
    IF ColonsOf(clause) = {} THEN clause
    ELSE SubSeq(clause, 1, MinOf(ColonsOf(clause)) - 1)
ValueText(clause) ==
    IF ColonsOf(clause) = {} THEN <<>>
    ELSE LET first == MinOf(ColonsOf(clause))
             later == {i \in ColonsOf(clause) : i > first}
         IN  SubSeq(clause, first + 1,
                    IF later = {} THEN Len(clause) ELSE MinOf(later) - 1)

\* v is a decimal numeral of a non-negative integer: digits, after an
\* optional sign, that denote a number >= 0.
IsNonNegativeDecimal(v) ==
    LET digits == IF v # <<>> /\ v[1] \in {"+", "-"} THEN Tail(v) ELSE v
    IN  /\ digits # <<>>
        /\ \A i \in 1..Len(digits) : digits[i] \in Digits
        /\ (v[1] = "-" => \A i \in 1..Len(digits) : digits[i] = "0")

HasBadIndexClause(tag) ==
    \E i \in 1..Len(Split(tag, attrDelim)) :
        /\ KeyText(Split(tag, attrDelim)[i]) = indexAttr
        /\ ~IsNonNegativeDecimal(ValueText(Split(tag, attrDelim)[i]))

HasAddressingClause(tag) ==
    \E i \in 1..Len(Split(tag, attrDelim)) :
        KeyText(Split(tag, attrDelim)[i]) \in {headerAttr, indexAttr}

\* C10: the tag parser fails with InvalidIndex exactly when some index
\* clause has a value that is no non-negative decimal integer; otherwise it
\* fails with MalformedTag exactly when no clause has the key header or
\* index (compared case-sensitively); otherwise it succeeds, whatever other
\* keys the tag holds.
C10_TagOutcome ==
    tagOut.done =>
        tagOut.err = IF HasBadIndexClause(tagIn) THEN ErrorInvalidIndex
                     ELSE IF ~HasAddressingClause(tagIn) THEN ErrorMalformedCsvTag
                     ELSE Nil

\* A tag with a valid header clause and a bad index clause has been parsed,
\* and one whose only addressing-like key differs from header in case.
C10_Witness ==
    /\ tagOut.done
    /\ tagOut.err = ErrorInvalidIndex
    /\ tagIn = TagOf(headerAttr, <<"a">>) \o <<attrDelim>> \o TagOf(indexAttr, <<"-", "1">>)

\* ------------------------------------------- what a record type declares

TaggedFields(rt) == {f \in FieldNames(rt) : FieldOf(rt, f).Tag # <<>>}

HasClause(tag, key) ==
    \E i \in 1..Len(Split(tag, attrDelim)) : KeyText(Split(tag, attrDelim)[i]) = key

\* The value of the last clause of the tag with this key.
ClauseText(tag, key) ==
    LET cl == Split(tag, attrDelim)
        last == CHOOSE i \in 1..Len(cl) :
                    /\ KeyText(cl[i]) = key
                    /\ \A j \in (i + 1)..Len(cl) : KeyText(cl[j]) # key
    IN  ValueText(cl[last])

HeaderBased(rt, f) ==
    HasClause(FieldOf(rt, f).Tag, headerAttr) /\ ~HasClause(FieldOf(rt, f).Tag, indexAttr)
IndexBased(rt, f) ==
    HasClause(FieldOf(rt, f).Tag, indexAttr) /\ ~HasClause(FieldOf(rt, f).Tag, headerAttr)

DeclaredLabel(rt, f) == ClauseText(FieldOf(rt, f).Tag, headerAttr)
DeclaredIndex(rt, f) == DigitsVal(ClauseText(FieldOf(rt, f).Tag, indexAttr))

AllHeaderBased(rt) ==
    TaggedFields(rt) # {} /\ \A f \in TaggedFields(rt) : HeaderBased(rt, f)
AllIndexBased(rt) ==
    TaggedFields(rt) # {} /\ \A f \in TaggedFields(rt) : IndexBased(rt, f)

\* The Go index of the first cell of hdr that is label.
FirstPosition(hdr, label) == MinOf({i \in 1..Len(hdr) : hdr[i] = label}) - 1

\* The value a field of this record type holds once cell is decoded into it.
Decoded(rt, f, cell) ==
    IF HasClause(FieldOf(rt, f).Tag, useCustomSetterAttr)
    THEN CustomSetter(rt, ZeroRecord(rt), f, cell).data[f]
    ELSE IF FieldOf(rt, f).Type = "string" THEN cell
    ELSE Atoi(cell).val

\* ------------------------------------------------------------------- C1

\* C1: for a record type whose bindings are all header-based, after a first,
\* successful and only ParseHeader, the N-th ReadRecord that returns nil has
\* read the N-th data row (row N + 1 of the source) and has set every bound
\* field to the decoded cell at the position where the field's label first
\* occurs in the header row.
C1_HeaderBoundRead ==
    (AllHeaderBased(rtype) /\ hdrFirst /\ nHdr = 1 /\ op = "ReadRecord" /\ err = Nil)
        => /\ pos = nRead + 1
           /\ \A f \in TaggedFields(rtype) :
                /\ \E i \in 1..Len(header) : header[i] = DeclaredLabel(rtype, f)
                /\ FirstPosition(header, DeclaredLabel(rtype, f)) < Len(row)
                /\ data[f] = Decoded(rtype, f,
                                row[FirstPosition(header, DeclaredLabel(rtype, f)) + 1])

\* The second data row has been read under a header whose columns are not in
\* declaration order and hold a column no field is bound to.
C1_Witness ==
    /\ rtype = headerTest
    /\ hdrFirst /\ nHdr = 1 /\ op = "ReadRecord" /\ err = Nil
    /\ nRead = 2
    /\ header = <<<<"5">>, <<"5">>, <<"a">>>>
    /\ row = <<<<"5">>, <<"a">>, <<"a">>>>

\* ------------------------------------------------------------------- C2

\* C2: for a record type with only index-based bindings, on a Parser whose
\* ParseHeader was never called, the N-th ReadRecord that returns nil has read
\* the N-th row of the source, the table holds every binding at its declared
\* index, and every bound field holds the decoded cell at that index.
C2_IndexBoundRead ==
    (AllIndexBased(rtype) /\ nHdr = 0 /\ op = "ReadRecord" /\ err = Nil)
        => /\ pos = nRead
           /\ DOMAIN csvAttrs = TaggedFields(rtype)
           /\ \A f \in TaggedFields(rtype) :
                /\ csvAttrs[f].columnIndex = DeclaredIndex(rtype, f)
                /\ DeclaredIndex(rtype, f) < Len(row)
                /\ data[f] = Decoded(rtype, f, row[DeclaredIndex(rtype, f) + 1])

\* The second row of a headerless source has been decoded.
C2_Witness ==
    /\ rtype = indexTest
    /\ nHdr = 0 /\ op = "ReadRecord" /\ err = Nil
    /\ nRead = 2
    /\ row = <<<<"5">>, <<"a">>, <<"5">>>>
    /\ data["Field1"] = <<"a">>
    /\ data["Field2"] = 5

\* ------------------------------------------------------------------- C3

\* C3 (as claimed): after ParseHeader has read a header row and the table is
\* built, every index-based binding still has its declared columnIndex, and
\* the call has not failed with FieldNotFound for such a binding.
C3_IndexBindingsUntouched ==
    (op = "ParseHeader" /\ readErr = Nil)
        => \A f \in DOMAIN csvAttrs :
                IndexBased(rtype, f)
                    => /\ csvAttrs[f].columnIndex = DeclaredIndex(rtype, f)
                       /\ ~(err.kind = "FieldNotFoundError" /\ err.FieldName = f)

\* ------------------------------------------------------------------- C4

\* C4 (as claimed): after a call in which metadata extraction failed, the
\* table of the Parser holds no bindings.
C4_NoPartialTable ==
    err.kind = "CsvTagDefError" => DOMAIN csvAttrs = {}

\* ------------------------------------------------------------------- C5

\* C5 (as claimed): over the calls made on one Parser, getCsvAttributes runs
\* at most once.
C5_ExtractsAtMostOnce == extractCount <= 1

\* ------------------------------------------------------------------- C6

\* A tagged field of the record type has a tag with neither a header nor an
\* index clause.
HasUnaddressedTag(rt) ==
    \E f \in TaggedFields(rt) : ~HasAddressingClause(FieldOf(rt, f).Tag)

\* C6 (as claimed): for a record type with a tag that declares neither
\* header nor index, the first call on a Parser (of a source that holds a
\* row) fails with MalformedTag and leaves the cursor of the source where it
\* was.
C6_MalformedBeforeAnyRead ==
    (calls = 1 /\ HasUnaddressedTag(rtype) /\ readErr # EOF)
        => ErrorsIs(err, ErrorMalformedCsvTag) /\ pos = 0

\* ------------------------------------------------------------------- C7

\* C7 (as claimed): when ReadRecord has read a row with fewer cells than
\* some binding's columnIndex + 1, it returns a SetValueError.
C7_ShortRowIsSetValueError ==
    (op = "ReadRecord" /\ readErr = Nil /\ row # <<>>
        /\ \E f \in DOMAIN csvAttrs : csvAttrs[f].columnIndex >= Len(row))
        => err.kind = "SetValueError"

\* ------------------------------------------------------------------- C8

\* v is a decimal numeral: digits after an optional sign.
IsDecimalInteger(v) ==
    LET digits == IF v # <<>> /\ v[1] \in {"+", "-"} THEN Tail(v) ELSE v
    IN  digits # <<>> /\ \A i \in 1..Len(digits) : digits[i] \in Digits

\* Every binding of the table has a cell in r that decodes into its field.
RowDecodes(rt, attrs, r) ==
    \A f \in DOMAIN attrs :
        /\ attrs[f].columnIndex < Len(r)
        /\ LET cell == r[attrs[f].columnIndex + 1]
           IN  IF attrs[f].useCustomSetter
               THEN CustomSetter(rt, ZeroRecord(rt), f, cell).err = Nil
               ELSE \/ FieldOf(rt, f).Type = "string"
                    \/ FieldOf(rt, f).Type = "int" /\ IsDecimalInteger(cell)

\* The cell of the row just read that the binding of f points at was decoded
\* into f.
FieldHoldsCell(f) ==
    data[f] = Decoded(rtype, f, row[csvAttrs[f].columnIndex + 1])

\* C8: a ReadRecord that returns a SetValueError has consumed one row and
\* left the table as it was (or as extraction built it in this call); the
\* error names a bound field, carries the cell of that field and wraps the
\* cause; and the ReadRecord that follows one that failed so decodes its row
\* as after any other call: it returns nil when the row decodes, and then
\* every bound field holds its cell.
C8_RowFailureIsLocal ==
    [][/\ (op' = "ReadRecord" /\ err'.kind = "SetValueError")
            => /\ pos' = pos + 1
               /\ readErr' = Nil
               /\ csvAttrs' = ensureAttrs(rtype, csvAttrs).csvAttrs
               /\ err'.FieldName \in DOMAIN csvAttrs'
               /\ err'.Value = row'[csvAttrs'[err'.FieldName].columnIndex + 1]
               /\ \/ ErrorsIs(err', NumError)
                  \/ ErrorsIs(err', ErrorUnexpectedCall)
                  \/ ErrorsIs(err', ErrorUnsupportedDataType)
       /\ (op = "ReadRecord" /\ err.kind = "SetValueError" /\ op' = "ReadRecord")
            => /\ csvAttrs' = csvAttrs
               /\ readErr' = Nil => pos' = pos + 1
               /\ (readErr' = Nil /\ RowDecodes(rtype, csvAttrs, row'))
                    => /\ err' = Nil
                       /\ \A f \in DOMAIN csvAttrs : FieldHoldsCell(f)'
      ]_vars

\* A row that failed has been followed by a row that decoded.
C8_Witness ==
    /\ afterRowError
    /\ rtype = indexTest
    /\ op = "ReadRecord" /\ err = Nil
    /\ pos = 2
    /\ data["Field2"] = 5

\* ------------------------------------------------------------------- C9

\* C9: a ReadRecord whose read of the source reports end-of-input returns
\* io.EOF itself and leaves the struct it was passed as it was; and once a
\* ReadRecord has returned io.EOF, every later ReadRecord returns io.EOF.
C9_EndOfInput ==
    [][/\ (op' = "ReadRecord" /\ readErr' = EOF)
            => err' = EOF /\ data' = ZeroRecord(rtype)
       /\ (eofSeen /\ op' = "ReadRecord") => err' = EOF
      ]_vars

\* End-of-input has been returned twice in a row, after a row was decoded.
C9_Witness ==
    /\ rtype = indexSingle
    /\ op = "ReadRecord" /\ err = EOF
    /\ nRead = 3 /\ pos = 1
    /\ eofSeen

\* ------------------------------------------------------------------ C11

\* The kinds the specification lists as supported primitive kinds.
SupportedKinds ==
    {"string", "bool", "int", "int8", "int16", "int32", "int64",
     "uint", "uint8", "uint16", "uint32", "uint64",
     "float32", "float64", "complex64", "complex128"}

\* The first check field i of the record type fails, in the order
\* exported-ness, tag grammar, custom-setter availability, type support; Nil
\* when it passes them all.
FieldFault(rt, i) ==
    LET f == rt.fields[i]
    IN  IF ~f.Exported THEN ErrorUnexportedField
        ELSE IF HasBadIndexClause(f.Tag) THEN ErrorInvalidIndex
        ELSE IF ~HasAddressingClause(f.Tag) THEN ErrorMalformedCsvTag
        ELSE IF HasClause(f.Tag, useCustomSetterAttr) /\ rt.setter = "none"
        THEN ErrorMissingCustomSetter
        ELSE IF f.Type \notin SupportedKinds /\ rt.setter = "none"
        THEN ErrorUnsupportedDataType
        ELSE Nil

\* The positions of the tagged fields that fail some check.
FaultyFields(rt) ==
    {i \in 1..Len(rt.fields) : rt.fields[i].Tag # <<>> /\ FieldFault(rt, i) # Nil}

\* C11: extraction returns nil when no tagged field fails a check;
\* otherwise it returns a CsvTagDefError that names the tagged field
\* earliest in declaration order that fails one, with that field's tag, and
\* wraps the first check that field fails in the order exported-ness, tag
\* grammar, custom-setter availability, type support.
C11_FirstViolationInOrder ==
    op = "getCsvAttributes" =>
        IF FaultyFields(rtype) = {} THEN err = Nil
        ELSE LET f == rtype.fields[MinOf(FaultyFields(rtype))]
             IN  err = CsvTagDefError(f.Tag, f.Name,
                                      FieldFault(rtype, MinOf(FaultyFields(rtype))))

\* Extraction has run on a type without CustomSetter whose first field has a
\* tag with no addressing clause that asks for the custom setter, on an
\* unsupported kind, and whose second field is unexported.
C11_Witness ==
    /\ op = "getCsvAttributes"
    /\ rtype = Rec(<<Fld("F1", useCustomSetterAttr, "interface", TRUE),
                     Fld("F2", HeaderA, "string", FALSE)>>, "none")
    /\ err = CsvTagDefError(useCustomSetterAttr, "F1", ErrorMalformedCsvTag)

\* ------------------------------------------------------------------ C12

\* The positions of the tagged fields whose kind is no supported primitive.
UnsupportedTagged(rt) ==
    {i \in 1..Len(rt.fields) :
        rt.fields[i].Tag # <<>> /\ rt.fields[i].Type \notin SupportedKinds}

\* No tagged field fails the export, grammar or custom-setter check.
OtherwiseValid(rt) ==
    \A i \in 1..Len(rt.fields) :
        rt.fields[i].Tag # <<>> =>
            /\ rt.fields[i].Exported
            /\ ~HasBadIndexClause(rt.fields[i].Tag)
            /\ HasAddressingClause(rt.fields[i].Tag)
            /\ HasClause(rt.fields[i].Tag, useCustomSetterAttr) => rt.setter # "none"

\* C12: for a record type with a tagged field of an unsupported kind and no
\* other fault, extraction fails with UnsupportedDataType on such a field
\* when the type has no CustomSetter, and succeeds, binding every tagged
\* field, when the type has one, whether or not the field's tag carries
\* useCustomSetter.
C12_UnsupportedKindNeedsSetter ==
    (op = "getCsvAttributes" /\ UnsupportedTagged(rtype) # {} /\ OtherwiseValid(rtype))
        => IF rtype.setter = "none"
           THEN /\ err.kind = "CsvTagDefError"
                /\ err.Err = ErrorUnsupportedDataType
                /\ \E i \in UnsupportedTagged(rtype) :
                        err.FieldName = rtype.fields[i].Name
           ELSE /\ err = Nil
                /\ DOMAIN csvAttrs =
                       {rtype.fields[i].Name : i \in {j \in 1..Len(rtype.fields) :
                                                        rtype.fields[j].Tag # <<>>}}

\* Extraction has accepted, on a type with CustomSetter, a field of an
\* unsupported kind whose tag does not ask for the custom setter.
C12_Witness ==
    /\ op = "getCsvAttributes"
    /\ rtype = Rec(<<Fld("F1", HeaderA, "interface", TRUE),
                     Fld("F2", TagOf(indexAttr, <<"0">>), "string", TRUE)>>, "noop")
    /\ err = Nil
    /\ DOMAIN csvAttrs = {"F1", "F2"}
    /\ ~csvAttrs["F1"].useCustomSetter

\* ------------------------------------------------------------------ C13

\* The least and the greatest value of an integer kind of 8 or 16 bits.
MinOfKind(kind) ==
    CASE kind = "int8" -> 0 - 128 [] kind = "int16" -> 0 - 32768
      [] kind \in {"uint8", "uint16"} -> 0
MaxOfKind(kind) ==
    CASE kind = "int8" -> 127 [] kind = "int16" -> 32767
      [] kind = "uint8" -> 255 [] kind = "uint16" -> 65535

NarrowKinds == {"int8", "int16", "uint8", "uint16"}

\* The number a decimal numeral denotes.
NumberOf(cell) ==
    IF cell[1] = "-" THEN 0 - DigitsVal(Tail(cell))
    ELSE IF cell[1] = "+" THEN DigitsVal(Tail(cell))
    ELSE DigitsVal(cell)

\* cell is a literal of the kind, and the value it denotes.
IsLiteral(kind, cell) ==
    CASE kind = "string" -> TRUE
      [] kind = "bool" -> cell = <<"t", "r", "u", "e">>
      [] kind \in NarrowKinds ->
            /\ IsDecimalInteger(cell)
            /\ NumberOf(cell) >= MinOfKind(kind)
            /\ NumberOf(cell) <= MaxOfKind(kind)
      [] kind = "uint" -> IsDecimalInteger(cell) /\ NumberOf(cell) >= 0
      [] kind \in {"int", "float64"} -> IsDecimalInteger(cell)
      [] OTHER -> FALSE

TypedValue(kind, cell) ==
    CASE kind = "string" -> cell
      [] kind = "bool" -> TRUE
      [] OTHER -> NumberOf(cell)

\* C13 (as claimed): on a record type without CustomSetter whose one tagged
\* field is of a supported primitive kind, ReadRecord does not fail in
\* extraction and never with UnsupportedDataType, and when the cell it read
\* is a literal of the kind it returns nil and the field holds the typed
\* value of the cell.
C13_PrimitiveKindsDecode ==
    (op = "ReadRecord" /\ rtype.setter = "none"
        /\ rtype.fields[1].Type \in SupportedKinds)
        => /\ err.kind # "CsvTagDefError"
           /\ ~ErrorsIs(err, ErrorUnsupportedDataType)
           /\ (readErr = Nil /\ row # <<>> /\ IsLiteral(rtype.fields[1].Type, row[1]))
                => /\ err = Nil
                   /\ data["Field1"] = TypedValue(rtype.fields[1].Type, row[1])

\* ------------------------------------------------------------------ C16

\* C16 (as claimed): when ReadRecord has read a row whose cell, a decimal
\* integer, is bound to a field of an integer kind of 8 or 16 bits, it
\* returns nil with the number stored in the field if the number is in the
\* range of the kind, and otherwise returns a SetValueError and leaves the
\* field at its zero value.
C16_IntegerRangeChecked ==
    (op = "ReadRecord" /\ readErr = Nil /\ row # <<>>
        /\ rtype.fields[1].Type \in NarrowKinds /\ IsDecimalInteger(row[1]))
        => IF IsLiteral(rtype.fields[1].Type, row[1])
           THEN err = Nil /\ data["Field1"] = NumberOf(row[1])
           ELSE err.kind = "SetValueError" /\ data["Field1"] = 0

\* ------------------------------------------------------------------ C14

\* The header-based bindings of the table, and those whose label is in no
\* cell of the header row.
HeaderBindings == {f \in DOMAIN csvAttrs : HeaderBased(rtype, f)}

MissingLabels ==
    {f \in HeaderBindings :
        \A i \in 1..Len(header) : header[i] # DeclaredLabel(rtype, f)}

\* C14 (as claimed): after ParseHeader has read a header row and has a
\* table, if it returned nil every header-based binding has as columnIndex
\* the first position of the header row whose cell is the binding's label;
\* and if the label of some header-based binding is in no cell of the row,
\* it returned a FieldNotFoundError that names such a binding and its
\* label.
C14_HeaderResolution ==
    (op = "ParseHeader" /\ readErr = Nil /\ err.kind # "CsvTagDefError")
        => /\ err = Nil =>
                \A f \in HeaderBindings :
                    csvAttrs[f].columnIndex = FirstPosition(header, DeclaredLabel(rtype, f))
           /\ MissingLabels # {} =>
                /\ err.kind = "FieldNotFoundError"
                /\ ErrorsIs(err, ErrorFieldNotFound)
                /\ err.FieldName \in MissingLabels
                /\ err.HeaderName = DeclaredLabel(rtype, err.FieldName)

\* ------------------------------------------------------------------ C15

\* C15 (as claimed): the binding of a tag the tag parser accepts does not
\* have both a non-empty headerName and an index declared by a clause of
\* the tag.
C15_OneAddressingMode ==
    (tagOut.done /\ tagOut.err = Nil)
        => ~(tagOut.attrs.headerName # <<>> /\ HasClause(tagIn, indexAttr))

====
